---- MODULE Spec2Model ----
(***************************************************************************)
(* Model of forcast.py: a Streamlit script that loads a forecast table     *)
(* (memoized by st.cache_data), lets the user select one Area, filters and *)
(* reshapes the table and composes a layered Altair chart.  The script is  *)
(* re-run from the top on every user interaction; one behaviour of the     *)
(* model is one process lifetime (a sequence of script runs).              *)
(*                                                                         *)
(* Input domain: the columns Area, Prophet_Forecast, Actual, ... exist in  *)
(* every table that load_data returns; a table whose Date column is        *)
(* missing or unparseable is modelled by hasDate = FALSE.                  *)
(***************************************************************************)
EXTENDS Integers, Sequences, FiniteSets

\* ---------------------------------------------------------------- bounds
MaxRows == 2    \* rows in the input file
MaxArea == 1    \* Area values are 0..MaxArea
MaxDate == 2    \* Date values are 1..MaxDate (or NaT)
MaxRuns == 3    \* script runs in one process

\* ------------------------------------------------------- missing markers
NaN  == -1      \* pandas missing number
NaT  == -1      \* pandas missing datetime
None == -2      \* Python None

Areas == 0..MaxArea
Dates == {NaT} \cup (1..MaxDate)

\* The measure columns of a row: a historical row (actual and fitted value,
\* nothing else) or a forecast row (both forecasts and the interval).
Measures ==
  { [Actual |-> 7,   Prophet_Train_Fitted |-> 6,   Prophet_Forecast |-> NaN,
     Auto_arima_forcasted |-> NaN, Lower_95_CI |-> NaN, Upper_95_CI |-> NaN],
    [Actual |-> NaN, Prophet_Train_Fitted |-> NaN, Prophet_Forecast |-> 5,
     Auto_arima_forcasted |-> 4,   Lower_95_CI |-> 3,   Upper_95_CI |-> 8] }

Row(a, d, m) ==
  [Area |-> a, Date |-> d, Actual |-> m.Actual,
   Prophet_Train_Fitted |-> m.Prophet_Train_Fitted,
   Prophet_Forecast |-> m.Prophet_Forecast,
   Auto_arima_forcasted |-> m.Auto_arima_forcasted,
   Lower_95_CI |-> m.Lower_95_CI, Upper_95_CI |-> m.Upper_95_CI]

Rows == { Row(a, d, m) : a \in Areas, d \in Dates, m \in Measures }

Tables == UNION { [1..n -> Rows] : n \in 0..MaxRows }

\* What is on disk under FILE_NAME.  kind tells how pandas.read_csv fares:
\*   utf8        valid UTF-8 CSV with a parseable Date column
\*   latin1      bytes invalid as UTF-8, a valid CSV when read as latin-1
\*   baddate     valid UTF-8 CSV without a (parseable) Date column
\*   missing     no such file
\*   malformed   valid UTF-8, not tokenizable as CSV
\*   binary      bytes invalid as UTF-8 and not tokenizable as latin-1 CSV
\*   utf16       UTF-16 text with a byte-order mark
FileKinds == {"utf8", "latin1", "baddate", "missing", "malformed", "binary", "utf16"}

\* The content of a legacy-encoded file plays no part in how it is decoded:
\* the tables of up to one row stand for it.
LegacyTables == { t \in Tables : Len(t) <= 1 }

Files ==
  { [kind |-> "utf8", rows |-> t] : t \in Tables }
    \cup { [kind |-> "latin1", rows |-> t] : t \in LegacyTables }
    \cup { [kind |-> k, rows |-> << >>] : k \in FileKinds \ {"utf8", "latin1"} }

FILE_NAME == "Prophet_All_Areas_Forecast.xlsx"

VARIABLES
  file,                 \* content of FILE_NAME on disk
  cache,                \* st.cache_data entry of load_data(FILE_NAME)
  pc,                   \* position of the running script
  runs,                 \* script runs started so far
  loads,                \* executions of the body of load_data so far
  widget,               \* session state of the selectbox (None: untouched)
  attempt1, attempt2,   \* outcome of the two read_csv calls of this run
  raw,                  \* local df of load_data before the Date conversion
  df,                   \* module-level df of this run
  exception,            \* unhandled exception that ended this run
  shown,                \* UI elements rendered in this run
  all_areas, selected_area,
  df_filtered, forecast_start_date, df_melted, df_ci,
  chart,                \* layers of the composed chart, bottom first
  history               \* first Transformer output seen for each Area

vars == << file, cache, pc, runs, loads, widget, attempt1, attempt2, raw, df,
           exception, shown, all_areas, selected_area, df_filtered,
           forecast_start_date, df_melted, df_ci, chart, history >>

\* ------------------------------------------------------------ pandas bits

\* pandas.read_csv(file_path, encoding=enc): the possible outcomes.
read_csv(f, enc) ==
  CASE f.kind = "missing" ->
         { [status |-> "FileNotFoundError", hasDate |-> FALSE, rows |-> << >>] }
    [] f.kind = "utf8" ->
         { [status |-> "ok", hasDate |-> TRUE, rows |-> f.rows] }
    [] f.kind = "baddate" ->
         { [status |-> "ok", hasDate |-> FALSE, rows |-> << >>] }
    [] f.kind = "malformed" ->
         { [status |-> "ParserError", hasDate |-> FALSE, rows |-> << >>] }
    [] f.kind = "latin1" ->
         IF enc = "utf-8"
           THEN { [status |-> "UnicodeDecodeError", hasDate |-> FALSE, rows |-> << >>] }
           ELSE { [status |-> "ok", hasDate |-> TRUE, rows |-> f.rows] }
    [] f.kind = "binary" ->
         IF enc = "utf-8"
           THEN { [status |-> "UnicodeDecodeError", hasDate |-> FALSE, rows |-> << >>] }
           ELSE { [status |-> "ParserError", hasDate |-> FALSE, rows |-> << >>] }
    [] f.kind = "utf16" ->
         \* latin-1 decodes every byte string: the retry either tokenizes the
         \* NUL-interleaved text into columns none of which is named Date, or
         \* the tokenizer rejects it.
         IF enc = "utf-8"
           THEN { [status |-> "UnicodeDecodeError", hasDate |-> FALSE, rows |-> << >>] }
           ELSE { [status |-> "ok", hasDate |-> FALSE, rows |-> << >>],
                  [status |-> "ParserError", hasDate |-> FALSE, rows |-> << >>] }

\* Series.notna() on one value.
notna(v) == v # NaN

\* Series.unique(): distinct values in order of first appearance.
RECURSIVE unique(_)
unique(s) ==
  IF s = << >> THEN << >>
  ELSE LET r == unique(SubSeq(s, 1, Len(s) - 1))
           x == s[Len(s)]
       IN  IF \E i \in DOMAIN r : r[i] = x THEN r ELSE Append(r, x)

\* sorted(): ascending insertion sort.
RECURSIVE insert(_, _)
insert(x, s) ==
  IF s = << >> THEN << x >>
  ELSE IF x <= Head(s) THEN << x >> \o s
  ELSE << Head(s) >> \o insert(x, Tail(s))

RECURSIVE sorted(_)
sorted(s) == IF s = << >> THEN << >> ELSE insert(Head(s), sorted(Tail(s)))

Column(t, c) == [i \in DOMAIN t |-> t[i][c]]

\* Comparison of datetimes: any comparison with NaT is False.
DateLt(a, b) == a # NaT /\ b # NaT /\ a < b

\* Series.min() / Series.max() of datetimes: NaT is skipped; NaT if none left.
SeriesMin(s) ==
  LET vals == { s[i] : i \in DOMAIN s } \ {NaT}
  IN  IF vals = {} THEN NaT ELSE CHOOSE m \in vals : \A v \in vals : m <= v

SeriesMax(s) ==
  LET vals == { s[i] : i \in DOMAIN s } \ {NaT}
  IN  IF vals = {} THEN NaT ELSE CHOOSE m \in vals : \A v \in vals : m >= v

\* Python truthiness of an Area value (numeric 0 is falsy).
Truthy(v) == v # None /\ v # 0


Range(s) == { s[i] : i \in DOMAIN s }

\* DataFrame.empty
empty(t) == t = << >>

\* -------------------------------------------------- Transformer (48-94)

\* df[df['Area'] == selected_area].copy()
filter_area(t, area) == SelectSeq(t, LAMBDA r : r.Area = area)

\* df_filtered.loc[df_filtered['Prophet_Forecast'].notna(), 'Date']
forecast_start_date_series(t) ==
  Column(SelectSeq(t, LAMBDA r : notna(r.Prophet_Forecast)), "Date")

\* df_filtered[df_filtered['Date'] < min_forecast_date]['Date']
previous_dates(t, min_forecast_date) ==
  Column(SelectSeq(t, LAMBDA r : DateLt(r.Date, min_forecast_date)), "Date")

\* Lines 55-66 with <= in place of < on line 61.
start_date_le(t) ==
  LET fs == forecast_start_date_series(t)
  IN  IF empty(fs) THEN None
      ELSE LET min_forecast_date == SeriesMin(fs)
               prev == Column(SelectSeq(t, LAMBDA r :
                         r.Date # NaT /\ min_forecast_date # NaT
                           /\ r.Date <= min_forecast_date), "Date")
           IN  IF ~ empty(prev) THEN SeriesMax(prev) ELSE min_forecast_date

\* Lines 55-66.
start_date(t) ==
  LET fs == forecast_start_date_series(t)
  IN  IF empty(fs) THEN None
      ELSE LET min_forecast_date == SeriesMin(fs)
               prev == previous_dates(t, min_forecast_date)
           IN  IF ~ empty(prev) THEN SeriesMax(prev) ELSE min_forecast_date

melt_cols == << "Actual", "Prophet_Train_Fitted", "Prophet_Forecast",
               "Auto_arima_forcasted" >>

\* The long-form row melt makes of row r for value column c.
long_row(r, c) ==
  [Area |-> r.Area, Date |-> r.Date, Lower_95_CI |-> r.Lower_95_CI,
   Upper_95_CI |-> r.Upper_95_CI, Series |-> c, Value |-> r[c]]

\* melt that drops the long-form rows whose Value is missing.
melt_dropna(t) ==
  IF empty(t) THEN << >>
  ELSE SelectSeq([k \in 1..(Len(melt_cols) * Len(t)) |->
                    long_row(t[((k - 1) % Len(t)) + 1],
                             melt_cols[((k - 1) \div Len(t)) + 1])],
                 LAMBDA r : notna(r.Value))

\* DataFrame.melt(id_vars=[Area, Date, Lower_95_CI, Upper_95_CI],
\*                value_vars=melt_cols): one block of rows per value column,
\* each block in the order of the frame.
melt(t) ==
  IF empty(t) THEN << >>
  ELSE [k \in 1..(Len(melt_cols) * Len(t)) |->
          long_row(t[((k - 1) % Len(t)) + 1],
                   melt_cols[((k - 1) \div Len(t)) + 1])]

\* dropna without the subset argument: a row with any missing value goes.
dropna_any(t) ==
  SelectSeq(t, LAMBDA r : \A c \in DOMAIN r : notna(r[c]))

\* df_filtered.dropna(subset=['Prophet_Forecast'])
dropna(t) == SelectSeq(t, LAMBDA r : notna(r.Prophet_Forecast))

\* ----------------------------------------------------- Renderer (95-129)

ci_band(t) == [mark |-> "area", data |-> t]

\* The strokeDash condition of the line layer.
strokeDash(series) ==
  IF series \in {"Prophet_Forecast", "Auto_arima_forcasted"}
    THEN << 5, 5 >> ELSE << 1, 0 >>

lines(t) ==
  [mark |-> "line", data |-> t,
   strokeDash |-> [c \in Range(melt_cols) |-> strokeDash(c)]]

v_line(d) == [mark |-> "rule", data |-> << d >>]

\* The layers with the marker added first.
compose_marker_first(band, ln, start) ==
  IF start # None THEN << v_line(start), band, ln >> ELSE << band, ln >>

\* Lines 116-129: alt.layer composition, first operand drawn first.
compose(band, ln, start) ==
  IF start # None THEN << band, ln, v_line(start) >> ELSE << band, ln >>

\* ------------------------------------------------------ Selector (36-43)

\* st.sidebar.selectbox(options=..., index=0): the session's value if the
\* user has picked one of the options, else the option at index.
selectbox(options, index, state) ==
  IF empty(options) THEN None
  ELSE IF state \in Range(options) THEN state
  ELSE options[index + 1]

\* ---------------------------------------------------------------- state

NoEntry == [hit |-> FALSE, value |-> << >>, error |-> FALSE]
NoRaw == [hasDate |-> FALSE, rows |-> << >>]
NoOutput == [n |-> 0]

Output(f, s, m, c) ==
  [n |-> 1, df_filtered |-> f, forecast_start_date |-> s,
   df_melted |-> m, df_ci |-> c]

\* The history entry after one more invocation with output out: the first
\* output is kept, the invocations are counted.
Recorded(h, out) == IF h.n > 0 THEN [h EXCEPT !.n = h.n + 1] ELSE out

\* The run-local state with which every script run starts.
FreshRun(a1, a2, r, d, e, sh, aa, sa, dff, fsd, dm, dc, ch) ==
  /\ a1 = "none" /\ a2 = "none" /\ r = NoRaw /\ d = << >>
  /\ e = "none" /\ sh = {} /\ aa = << >> /\ sa = None /\ dff = << >>
  /\ fsd = None /\ dm = << >> /\ dc = << >> /\ ch = << >>

Init ==
  /\ file \in Files
  /\ cache = NoEntry
  /\ pc = "start"
  /\ runs = 1
  /\ loads = 0
  /\ widget = None
  /\ history = [a \in Areas |-> NoOutput]
  /\ FreshRun(attempt1, attempt2, raw, df, exception, shown, all_areas,
              selected_area, df_filtered, forecast_start_date, df_melted,
              df_ci, chart)

\* ------------------------------------------------------ load_data (8-24)

\* @st.cache_data, entry present: the stored value is returned and the
\* st.error call recorded with it is replayed; the body does not run.
CacheHit ==
  /\ pc = "start" /\ cache.hit
  /\ df' = cache.value
  /\ shown' = IF cache.error THEN shown \cup {"error"} ELSE shown
  /\ pc' = "loaded"
  /\ UNCHANGED << file, cache, runs, loads, widget, attempt1, attempt2, raw,
                  exception, all_areas, selected_area, df_filtered,
                  forecast_start_date, df_melted, df_ci, chart, history >>

\* Lines 11-14: first read_csv; only UnicodeDecodeError is caught.
ReadDefault ==
  /\ pc = "start" /\ ~ cache.hit
  /\ loads' = loads + 1
  /\ \E o \in read_csv(file, "utf-8") :
       /\ attempt1' = o.status
       /\ CASE o.status = "ok" ->
                 /\ raw' = [hasDate |-> o.hasDate, rows |-> o.rows]
                 /\ pc' = "dates"
                 /\ UNCHANGED << exception, shown >>
            [] o.status = "UnicodeDecodeError" ->
                 /\ pc' = "retry"
                 /\ UNCHANGED << raw, exception, shown >>
            [] OTHER ->
                 /\ exception' = o.status
                 /\ shown' = shown \cup {"exception"}
                 /\ pc' = "crashed"
                 /\ raw' = raw
  /\ UNCHANGED << file, cache, runs, widget, attempt2, df, all_areas,
                  selected_area, df_filtered, forecast_start_date, df_melted,
                  df_ci, chart, history >>

\* Lines 15-20: the retry with latin-1; every Exception is caught, reported
\* with st.error, and an empty DataFrame is returned (and memoized).
ReadLatin1 ==
  /\ pc = "retry"
  /\ \E o \in read_csv(file, "latin-1") :
       /\ attempt2' = o.status
       /\ IF o.status = "ok"
            THEN /\ raw' = [hasDate |-> o.hasDate, rows |-> o.rows]
                 /\ pc' = "dates"
                 /\ UNCHANGED << shown, df, cache >>
            ELSE /\ shown' = shown \cup {"error"}
                 /\ df' = << >>
                 /\ cache' = [hit |-> TRUE, value |-> << >>, error |-> TRUE]
                 /\ pc' = "loaded"
                 /\ raw' = raw
  /\ UNCHANGED << file, runs, loads, widget, attempt1, exception, all_areas,
                  selected_area, df_filtered, forecast_start_date, df_melted,
                  df_ci, chart, history >>

\* Lines 23-24: the Date conversion and the return; a missing or unparseable
\* Date column raises out of load_data and nothing is memoized.
ConvertDate ==
  /\ pc = "dates"
  /\ IF raw.hasDate
       THEN /\ df' = raw.rows
            /\ cache' = [hit |-> TRUE, value |-> raw.rows, error |-> FALSE]
            /\ pc' = "loaded"
            /\ UNCHANGED << exception, shown >>
       ELSE /\ exception' = "KeyError"
            /\ shown' = shown \cup {"exception"}
            /\ pc' = "crashed"
            /\ UNCHANGED << df, cache >>
  /\ UNCHANGED << file, runs, loads, widget, attempt1, attempt2, raw,
                  all_areas, selected_area, df_filtered, forecast_start_date,
                  df_melted, df_ci, chart, history >>

\* --------------------------------------------------- script body (31-135)

\* Line 31 with lines 32-46: title, selector and the selection test.
SelectArea ==
  /\ pc = "loaded"
  /\ IF empty(df)
       THEN /\ pc' = "done"
            /\ UNCHANGED << shown, all_areas, selected_area >>
       ELSE LET opts == sorted(unique(Column(df, "Area")))
                sel  == selectbox(opts, 0, widget)
            IN  /\ all_areas' = opts
                /\ selected_area' = sel
                /\ IF ~ Truthy(sel)
                     THEN /\ shown' = shown \cup {"title", "selector", "warning"}
                          /\ pc' = "done"
                     ELSE /\ shown' = shown \cup {"title", "selector"}
                          /\ pc' = "transform"
  /\ UNCHANGED << file, cache, runs, loads, widget, attempt1, attempt2, raw,
                  df, exception, df_filtered, forecast_start_date, df_melted,
                  df_ci, chart, history >>

\* Transform filtering the memoized table itself instead of a copy.
TransformInPlace ==
  /\ pc = "transform"
  /\ LET f == filter_area(df, selected_area)
     IN  /\ df_filtered' = f
         /\ df' = f
         /\ cache' = [cache EXCEPT !.value = f]
         /\ forecast_start_date' = start_date(f)
         /\ df_melted' = melt(f)
         /\ df_ci' = dropna(f)
         /\ history' = [history EXCEPT ![selected_area] =
                          Recorded(history[selected_area],
                                   Output(f, start_date(f), melt(f), dropna(f)))]
  /\ pc' = "render"
  /\ UNCHANGED << file, runs, loads, widget, attempt1, attempt2, raw,
                  exception, shown, all_areas, selected_area, chart >>

\* Lines 48-75 and 94: filter, forecast start date, melt, band subset.
Transform ==
  /\ pc = "transform"
  /\ LET f == filter_area(df, selected_area)
     IN  /\ df_filtered' = f
         /\ forecast_start_date' = start_date(f)
         /\ df_melted' = melt(f)
         /\ df_ci' = dropna(f)
         /\ history' = [history EXCEPT ![selected_area] =
                          Recorded(history[selected_area],
                                   Output(f, start_date(f), melt(f), dropna(f)))]
  /\ pc' = "render"
  /\ UNCHANGED << file, cache, runs, loads, widget, attempt1, attempt2, raw,
                  df, exception, shown, all_areas, selected_area, chart >>

\* Lines 95-135: chart composition, st.altair_chart and st.dataframe.
Render ==
  /\ pc = "render"
  /\ chart' = compose(ci_band(df_ci), lines(df_melted), forecast_start_date)
  /\ shown' = shown \cup {"chart", "table"}
  /\ pc' = "done"
  /\ UNCHANGED << file, cache, runs, loads, widget, attempt1, attempt2, raw,
                  df, exception, all_areas, selected_area, df_filtered,
                  forecast_start_date, df_melted, df_ci, history >>

\* ------------------------------------------------------------- re-runs

StartRun ==
  /\ runs < MaxRuns
  /\ runs' = runs + 1
  /\ pc' = "start"
  /\ FreshRun(attempt1', attempt2', raw', df', exception', shown', all_areas',
              selected_area', df_filtered', forecast_start_date', df_melted',
              df_ci', chart')
  /\ UNCHANGED << file, cache, loads, history >>

\* The user re-runs the script without touching the selector.
Rerun ==
  /\ pc \in {"done", "crashed"}
  /\ widget' = widget
  /\ StartRun

\* The user picks an option of the rendered selector, which re-runs the script.
Interact ==
  /\ pc = "done" /\ "selector" \in shown
  /\ \E a \in Range(all_areas) : widget' = a
  /\ StartRun

Next ==
  \/ CacheHit \/ ReadDefault \/ ReadLatin1 \/ ConvertDate
  \/ SelectArea \/ Transform \/ Render
  \/ Rerun \/ Interact

Spec == Init /\ [][Next]_vars

\* ==================================================================
\* Properties
\* ==================================================================

SetMin(S) == CHOOSE m \in S : \A v \in S : m <= v
SetMax(S) == CHOOSE m \in S : \A v \in S : m >= v

\* The Transformer has run in this script run / the chart has been drawn.
Transformed == pc = "render" \/ (pc = "done" /\ "chart" \in shown)
Rendered == pc = "done" /\ "chart" \in shown
RunEnded == pc \in {"done", "crashed"}

\* Positions of the loaded table's rows of Area A, and those with a forecast.
InArea(A) == { j \in DOMAIN df : df[j].Area = A }
WithForecast(A) == { j \in InArea(A) : df[j].Prophet_Forecast # NaN }
NthOf(S, i) == CHOOSE j \in S : Cardinality({ j2 \in S : j2 <= j }) = i

\* Present Dates of the forecast rows of Area A, and the present Dates of
\* the rows of Area A strictly before date m.
ForecastDates(A) == { df[j].Date : j \in WithForecast(A) } \ {NaT}
DatesBefore(A, m) == { d \in { df[j].Date : j \in InArea(A) } \ {NaT} : d < m }

HasMarker == \E k \in DOMAIN chart : chart[k].mark = "rule"

\* ------------------------------------------------------------------ C1
\* The forecast start date as the claim states it: the greatest Date before
\* the first forecast Date, undefined when there is none.
ClaimedStart(A) ==
  IF ForecastDates(A) = {} THEN None
  ELSE LET before == DatesBefore(A, SetMin(ForecastDates(A)))
       IN  IF before = {} THEN None ELSE SetMax(before)

AmendedStart(A) ==
  IF WithForecast(A) = {} THEN None
  ELSE IF ForecastDates(A) = {} THEN NaT
  ELSE LET m == SetMin(ForecastDates(A))
           before == DatesBefore(A, m)
       IN  IF before = {} THEN m ELSE SetMax(before)

ReadFailures == {"FileNotFoundError", "ParserError"}
LoadReturned == pc \in {"loaded", "transform", "render", "done"}

\* C2: load_data never raises: whatever the two read attempts do, it returns
\* a table or shows the error message and returns an empty table; a decoding
\* failure of the first attempt causes exactly one retry, any other failure
\* the error message and the empty table.
C2_LoadDataNeverRaises ==
  /\ exception \notin ReadFailures
  /\ attempt2 # "none" => attempt1 = "UnicodeDecodeError"
  /\ (LoadReturned /\ attempt1 = "UnicodeDecodeError") => attempt2 # "none"
  /\ (LoadReturned /\ (attempt1 \in ReadFailures \/ attempt2 \in ReadFailures))
       => ("error" \in shown /\ df = << >>)

\* ------------------------------------------------------------------ C3
\* long is the long form of the rows of Area A: 4 rows per row, the k-th
\* block holding series k of every row in order, id columns copied.
LongFormOf(long, A) ==
  LET n == Cardinality(InArea(A))
  IN  /\ Len(long) = 4 * n
      /\ \A i \in 1..n : \A c \in 1..4 :
           LET src == df[NthOf(InArea(A), i)]
               out == long[(c - 1) * n + i]
           IN  /\ out.Area = src.Area /\ out.Date = src.Date
               /\ out.Lower_95_CI = src.Lower_95_CI
               /\ out.Upper_95_CI = src.Upper_95_CI
               /\ out.Series = melt_cols[c]
               /\ out.Value = src[melt_cols[c]]

\* C3: for every Area A of the table, filtering to A and reshaping gives
\* exactly 4 long-form rows per filtered row, one per series and also where
\* the Value is missing, and each carries the Area, Date, Lower_95_CI and
\* Upper_95_CI of the filtered row it came from.
C3_MeltKeepsFourRowsPerRow ==
  /\ Transformed => LongFormOf(df_melted, selected_area)
  /\ pc = "loaded" => \A j \in DOMAIN df :
       LongFormOf(melt(filter_area(df, df[j].Area)), df[j].Area)

\* C3 witness: a chart drawn for an Area whose table also has a row of
\* another Area, with a long-form row whose Value is missing.
C3_Witness ==
  /\ Rendered
  /\ Len(df_filtered) >= 1 /\ Len(df) > Len(df_filtered)
  /\ Len(df_melted) = 4 * Len(df_filtered)
  /\ \E k \in DOMAIN df_melted : df_melted[k].Value = NaN

\* ------------------------------------------------------------------ C4
\* C4: a run whose file is not found, unreadable or fails under both
\* encodings ends with the error message shown, an empty load result and no
\* selector, chart or table, and not with an unhandled exception.
C4_LoadFailureHalts ==
  (RunEnded /\ file.kind \in {"missing", "binary"}) =>
     /\ exception = "none"
     /\ "error" \in shown
     /\ df = << >>
     /\ shown \cap {"selector", "chart", "table"} = {}

\* ------------------------------------------------------------------ C5
\* C5: the selector offers the distinct Areas in sorted order and returns
\* one of them, the first by default; the warning branch is taken only when
\* there is no Area value, so every Area that is selected, falsy ones
\* included, gets its chart.
C5_WarningOnlyWithoutAreas ==
  /\ "selector" \in shown =>
       /\ Range(all_areas) = { df[j].Area : j \in DOMAIN df }
       /\ \A i \in 1..(Len(all_areas) - 1) : all_areas[i] < all_areas[i + 1]
       /\ selected_area \in Range(all_areas)
       /\ widget = None => selected_area = all_areas[1]
  /\ "warning" \in shown => all_areas = << >>
  /\ (pc = "done" /\ "selector" \in shown) => "chart" \in shown

\* ------------------------------------------------------------------ C6
\* C6: over all the runs of one process the file is loaded from disk at
\* most once; once load_data has completed, later runs take the memoized
\* table and do no file I/O.
C6_FileReadAtMostOnce == loads <= 1

\* ------------------------------------------------------------------ C7
\* C7: with a UTF-16 file the load fails: after the retry with latin-1,
\* load_data shows the error message and returns an empty table, and no
\* chart is rendered.
C7_Utf16LoadFails ==
  (RunEnded /\ file.kind = "utf16") =>
     /\ attempt2 # "none"
     /\ exception = "none"
     /\ "error" \in shown
     /\ df = << >>
     /\ "chart" \notin shown

\* ------------------------------------------------------------------ C8
\* C8: the confidence-band subset is exactly the filtered rows whose
\* Prophet_Forecast is present; for an Area without any forecast value the
\* run completes without an error, the subset is empty and the chart has no
\* vertical-marker layer.
C8_BandSubsetIsForecastRows ==
  /\ Transformed =>
       /\ Len(df_ci) = Cardinality(WithForecast(selected_area))
       /\ \A i \in DOMAIN df_ci :
            df_ci[i] = df[NthOf(WithForecast(selected_area), i)]
       /\ exception = "none"
  /\ (Rendered /\ WithForecast(selected_area) = {}) =>
       /\ df_ci = << >>
       /\ chart # << >> /\ ~ HasMarker
       /\ chart[1].data = << >>
  /\ pc = "crashed" => selected_area = None

\* C8 witness: a chart drawn for an Area that has rows but no forecast.
C8_Witness ==
  /\ Rendered
  /\ df_filtered # << >>
  /\ WithForecast(selected_area) = {}
  /\ Len(chart) = 2

\* ------------------------------------------------------------------ C9
\* The output just computed is the one first recorded for the Area.
TransformerOutputRepeats ==
  pc = "render" =>
    history[selected_area] =
      [Output(df_filtered, forecast_start_date, df_melted, df_ci)
         EXCEPT !.n = history[selected_area].n]

\* C9: the Transformer depends on the table and the selected Area only:
\* every invocation for an Area yields the output of the first invocation
\* for that Area, and no step of the Transformer or the Renderer changes
\* the loaded table or its memoized copy.
C9_TransformerIsPure ==
  [][ /\ cache.hit => cache' = cache
      /\ pc \in {"transform", "render"} => df' = df
      /\ TransformerOutputRepeats' ]_vars

\* C9 witness: the Transformer has just run a second time for an Area, in
\* a table that also has rows of another Area.
C9_Witness ==
  /\ pc = "render"
  /\ history[selected_area].n >= 2
  /\ Len(df) > Len(df_filtered)

\* ----------------------------------------------------------------- C10
\* C10: the chart's layers are the confidence band, then the series lines,
\* then the vertical marker; the marker is there exactly when the forecast
\* start date is defined, and sits on that date; of the four series exactly
\* Prophet_Forecast and Auto_arima_forcasted are dashed.
C10_LayerOrderAndDashes ==
  Rendered =>
    /\ Len(chart) \in {2, 3}
    /\ chart[1].mark = "area" /\ chart[1].data = df_ci
    /\ chart[2].mark = "line" /\ chart[2].data = df_melted
    /\ Len(chart) = 3 <=> forecast_start_date # None
    /\ Len(chart) = 3 =>
         (chart[3].mark = "rule" /\ chart[3].data = << forecast_start_date >>)
    /\ { c \in Range(melt_cols) : chart[2].strokeDash[c] # << 1, 0 >> }
         = {"Prophet_Forecast", "Auto_arima_forcasted"}
    /\ \A c \in {"Prophet_Forecast", "Auto_arima_forcasted"} :
         chart[2].strokeDash[c] = << 5, 5 >>

\* C10 witness: a chart drawn with all three layers.
C10_Witness ==
  /\ Rendered
  /\ Len(chart) = 3
  /\ forecast_start_date \in 1..MaxDate

====
